---- MODULE Spec2Model ----
(***************************************************************************)
(* scrape.py, the RFP harvester: link discovery on each landing page of    *)
(* SITES, the skip of already stored documents, download, metadata         *)
(* extraction and the merge into latest_rfps.json.                         *)
(*                                                                         *)
(* A file name is a sequence of tokens: "." is the dot character, every    *)
(* other token stands for a run of characters without a dot or a slash.    *)
(* A URL is [host, name]: name is its last path component, host is all     *)
(* that precedes it; an href with host "" is relative.                     *)
(***************************************************************************)
EXTENDS Integers, Sequences, FiniteSets, TLC

\* ---- bounds ------------------------------------------------------------
MaxRuns == 2

\* ---- settings (section 0 of scrape.py) ---------------------------------
\* The first two entries of SITES, in dictionary order.
SITES == << [tag |-> "samsung", url |-> "sra.samsung.com"],
            [tag |-> "amazon",  url |-> "www.amazon.science"] >>

NumSites == Len(SITES)

\* ---- hrefs, URLs and documents of the environment ----------------------
HrefA   == [host |-> "https://cdn", name |-> <<"a", ".", "pdf">>]
HrefB   == [host |-> "",            name |-> <<"b", ".", "DOCX">>]
HrefC   == [host |-> "https://cdn", name |-> <<"c", ".", "doc">>]
HrefDot == [host |-> "https://cdn", name |-> <<".", "pdf">>]
HrefTxt == [host |-> "",            name |-> <<"n", ".", "txt">>]
LinkOld == [host |-> "https://cdn", name |-> <<"x", ".", "pdf">>]

\* what session.get(url) answers when it raises RequestException
FetchFailed == [ok |-> FALSE, anchors |-> {}, text |-> {}]
NoLink == [host |-> "", name |-> <<>>]

\* What a landing page holds: the hrefs of its anchors and the URLs that
\* PDF_RE finds in its raw text. The third page has no anchor that ends in
\* one of the three extensions, so that its links come from the PDF_RE scan.
Pages == { [ok |-> TRUE, anchors |-> {HrefB, HrefTxt}, text |-> {}],
           [ok |-> TRUE, anchors |-> {HrefC},          text |-> {}],
           [ok |-> TRUE, anchors |-> {HrefTxt},        text |-> {HrefA, HrefDot}] }

\* The bytes a document URL can serve.
Bytes == {"dated", "corrupt"}

\* ---- helpers (section 2 of scrape.py) ----------------------------------
Lower(tok) == CASE tok = "PDF"  -> "pdf"
                [] tok = "DOCX" -> "docx"
                [] tok = "DOC"  -> "doc"
                [] OTHER        -> tok

\* href.lower().endswith((".pdf", ".doc", ".docx"))
EndsWithDoc(name) ==
    /\ Len(name) >= 2
    /\ name[Len(name) - 1] = "."
    /\ Lower(name[Len(name)]) \in {"pdf", "doc", "docx"}

\* requests.compat.urljoin(url, href) for an href that does not start with http
urljoin(url, href) == [host |-> "https://" \o url, name |-> href.name]

StartsWithHttp(href) == href.host # ""

FullUrl(url, href) == IF StartsWithHttp(href) THEN href ELSE urljoin(url, href)

\* doc_links(url), given what session.get(url) answered
doc_links(url, resp) ==
    IF ~resp.ok THEN {}
    ELSE LET found_links == { FullUrl(url, a) : a \in { h \in resp.anchors : EndsWithDoc(h.name) } }
         IN  IF found_links = {} THEN resp.text ELSE found_links

\* pathlib.Path(link).suffix: the part of the name from its last dot on,
\* empty when the name has no dot, starts with its only dot or ends with a dot.
LastDot(name) ==
    LET dots == { i \in 1..Len(name) : name[i] = "." }
    IN  IF dots = {} THEN 0 ELSE CHOOSE i \in dots : \A j \in dots : j <= i

Suffix(name) ==
    LET i == LastDot(name)
    IN  IF 1 < i /\ i < Len(name) THEN SubSeq(name, i, Len(name)) ELSE <<>>

\* pathlib.Path(link).suffix.lower()
FileExt(link) == [ i \in 1..Len(Suffix(link.name)) |-> Lower(Suffix(link.name)[i]) ]

Supported == { <<".", "pdf">>, <<".", "docx">>, <<".", "doc">> }

\* hashlib.sha1(link.encode()).hexdigest(): one digest per URL text
AllLinks == << HrefA, HrefC, HrefDot, LinkOld,
               FullUrl(SITES[1].url, HrefB), FullUrl(SITES[2].url, HrefB) >>

sha1(link) == CHOOSE i \in 1..Len(AllLinks) : AllLinks[i] = link

\* parse_pdf with the fields of a failed parse left blank
parse_pdf_blank(bytes) ==
    IF bytes = "corrupt"
    THEN [posted |-> "", deadline |-> "", snippet |-> ""]
    ELSE [posted |-> "Jan 1, 2025", deadline |-> "Mar 1, 2025", snippet |-> "Call text"]

\* parse_pdf(path), given the bytes stored at path
parse_pdf(bytes) ==
    IF bytes = "corrupt"
    THEN [posted |-> "n/a", deadline |-> "n/a", snippet |-> "Error parsing PDF: e"]
    ELSE [posted |-> "Jan 1, 2025", deadline |-> "Mar 1, 2025", snippet |-> "Call text"]

\* parse_docx(path), given the bytes stored at path
parse_docx(bytes) ==
    IF bytes = "corrupt"
    THEN [posted |-> "n/a", deadline |-> "n/a", snippet |-> "Error parsing DOCX: e"]
    ELSE [posted |-> "Jan 1, 2025", deadline |-> "Mar 1, 2025", snippet |-> "Call text"]

LegacyDocMeta ==
    [posted |-> "n/a", deadline |-> "n/a",
     snippet |-> "Legacy .doc file, text extraction not supported."]

\* the parser dispatch of main()
Meta(file_ext, bytes) ==
    CASE file_ext = <<".", "pdf">>  -> parse_pdf(bytes)
      [] file_ext = <<".", "docx">> -> parse_docx(bytes)
      [] OTHER                      -> LegacyDocMeta

\* meta["portal"] = tag; meta["source"] = link
Record(meta, tag, link) ==
    [posted |-> meta.posted, deadline |-> meta.deadline, snippet |-> meta.snippet,
     portal |-> tag, source |-> link]

\* ---- the catalog merge of main() ---------------------------------------
RECURSIVE DictFromList(_)
\* {item['source']: item for item in items}, as the list of the dictionary's
\* values in insertion order: a later item replaces the value of its key in place.
DictFromList(items) ==
    IF items = <<>> THEN <<>>
    ELSE LET d    == DictFromList(SubSeq(items, 1, Len(items) - 1))
             item == items[Len(items)]
         IN  IF \E i \in 1..Len(d) : d[i].source = item.source
             THEN [ i \in 1..Len(d) |-> IF d[i].source = item.source THEN item ELSE d[i] ]
             ELSE Append(d, item)

\* a merge in which a record of the catalog wins over a fresh one
MergeKeepOld(existing_rfps, newly_scraped) == DictFromList(newly_scraped \o existing_rfps)

\* a merge that appends without the dictionary
MergeConcat(existing_rfps, newly_scraped) == existing_rfps \o newly_scraped

\* a merge that writes the fresh records only
MergeFreshOnly(existing_rfps, newly_scraped) == DictFromList(newly_scraped)

\* final_rfps_dict built from existing_rfps, then overwritten by each fresh item
Merge(existing_rfps, newly_scraped) == DictFromList(existing_rfps \o newly_scraped)

\* a load that always starts fresh
LoadNothing(file) == <<>>

\* the loading of JSON_PATH: what existing_rfps holds when the load returns
LoadExisting(file) == IF file.kind = "list" THEN file.recs ELSE <<>>

\* the dictionary comprehension over existing_rfps raises unless the decoded
\* JSON iterates over objects that have a 'source' key
MergeRaises(file) == file.kind = "other"

\* ---- persisted state a run may start from ------------------------------
OldRec(link, v) ==
    [posted |-> v, deadline |-> v, snippet |-> v, portal |-> "samsung", source |-> link]

File(link) == [stem |-> sha1(link), ext |-> FileExt(link)]

EmptyStore == [ f \in {} |-> "dated" ]

StoreA == [ f \in {File(HrefA)} |-> "dated" ]

\* JSON_PATH: missing, of size 0, not JSON, JSON of another shape than a list
\* of records, or a list of records
CatalogFile(kind, recs) == [kind |-> kind, recs |-> recs]

\* DATA_DIR and JSON_PATH as a first run may find them
InitDisks ==
    { << EmptyStore, CatalogFile("missing", <<>>) >>,
      << EmptyStore, CatalogFile("empty", <<>>) >>,
      << EmptyStore, CatalogFile("malformed", <<>>) >>,
      << EmptyStore, CatalogFile("other", <<>>) >>,
      << StoreA,     CatalogFile("list", << OldRec(LinkOld, "old"), OldRec(HrefA, "old") >>) >>,
      << EmptyStore, CatalogFile("list", << OldRec(HrefA, "old"), OldRec(HrefA, "older") >>) >> }

\* ---- state -------------------------------------------------------------
VARIABLES
    store,              \* DATA_DIR: file name -> bytes
    catalog,            \* JSON_PATH
    pc,                 \* position of main(): idle, sites, links, merge, done, crashed
    run,                \* number of runs started
    site,               \* index in SITES of the site last taken by the outer loop
    pending,            \* links doc_links(url) has still to yield
    seen_hashes,
    newly_scraped_rfps,
    existing_rfps,
    lastFetch,          \* document URL the last step sent a GET for, or NoLink
    lastOutcome,        \* what the last step did
    pages,              \* this run: the answers of the landing pages, in SITES order
    failed,             \* this run: document URLs whose download failed
    prevPages,          \* answers of the previous run for the sites this run has not visited yet
    samePages,          \* this run: every landing page so far answered as in the previous run
    prevFailed,         \* failed of the previous run
    prevStore,          \* file names of DATA_DIR when this run started
    prevCatalog         \* JSON_PATH when this run started

vars == << store, catalog, pc, run, site, pending, seen_hashes, newly_scraped_rfps,
           existing_rfps, lastFetch, lastOutcome, pages, failed,
           prevPages, samePages, prevFailed, prevStore, prevCatalog >>

NoPages == <<>>

Init ==
    /\ \E disk \in InitDisks : store = disk[1] /\ catalog = disk[2]
    /\ pc = "idle"
    /\ run = 0
    /\ site = 0
    /\ pending = {}
    /\ seen_hashes = {}
    /\ newly_scraped_rfps = <<>>
    /\ existing_rfps = <<>>
    /\ lastFetch = NoLink
    /\ lastOutcome = "none"
    /\ pages = NoPages
    /\ failed = {}
    /\ prevPages = NoPages
    /\ samePages = FALSE
    /\ prevFailed = {}
    /\ prevStore = DOMAIN store
    /\ prevCatalog = catalog

\* seen_hashes taken from the PDF files only
SeenHashesPdfOnly(dir) == { f.stem : f \in { g \in DOMAIN dir : g.ext = <<".", "pdf">> } }

\* seen_hashes = {p.stem for p in DATA_DIR.glob("*.*")}
SeenHashes(dir) == { f.stem : f \in DOMAIN dir }

\* where main() stands once the generator has `rest` left to yield
AfterLink(rest, s) ==
    IF rest # {} THEN "links" ELSE IF s < NumSites THEN "sites" ELSE "merge"

\* bookkeeping of samePages and prevPages at a landing page
SameAnswer(resp) == samePages /\ prevPages # <<>> /\ resp = Head(prevPages)

Rest(seq) == IF seq = <<>> THEN <<>> ELSE Tail(seq)

\* main() up to the outer loop
StartRun ==
    /\ pc \in {"idle", "done", "crashed"}
    /\ run < MaxRuns
    /\ run' = run + 1
    /\ seen_hashes' = SeenHashes(store)
    /\ newly_scraped_rfps' = <<>>
    /\ existing_rfps' = <<>>
    /\ site' = 0
    /\ pending' = {}
    /\ pc' = IF NumSites > 0 THEN "sites" ELSE "merge"
    /\ lastFetch' = NoLink
    /\ lastOutcome' = "start"
    /\ prevPages' = pages
    /\ samePages' = (Len(pages) = NumSites)
    /\ prevFailed' = failed
    /\ prevStore' = DOMAIN store
    /\ prevCatalog' = catalog
    /\ pages' = NoPages
    /\ failed' = {}
    /\ UNCHANGED << store, catalog >>

\* the outer loop takes the next site and doc_links(url) fails to fetch it
LandingFailed ==
    /\ pc = "sites"
    /\ site < NumSites
    /\ site' = site + 1
    /\ pending' = doc_links(SITES[site'].url, FetchFailed)
    /\ pages' = Append(pages, FetchFailed)
    /\ samePages' = SameAnswer(FetchFailed)
    /\ prevPages' = Rest(prevPages)
    /\ pc' = AfterLink(pending', site')
    /\ lastFetch' = NoLink
    /\ lastOutcome' = "landing_failed"
    /\ UNCHANGED << store, catalog, run, seen_hashes, newly_scraped_rfps, existing_rfps,
                    failed, prevFailed, prevStore, prevCatalog >>

\* the outer loop takes the next site and doc_links(url) collects its links
LandingFetched ==
    /\ pc = "sites"
    /\ site < NumSites
    /\ site' = site + 1
    /\ \E resp \in Pages :
         /\ pending' = doc_links(SITES[site'].url, resp)
         /\ pages' = Append(pages, resp)
         /\ samePages' = SameAnswer(resp)
    /\ prevPages' = Rest(prevPages)
    /\ pc' = AfterLink(pending', site')
    /\ lastFetch' = NoLink
    /\ lastOutcome' = "landing_fetched"
    /\ UNCHANGED << store, catalog, run, seen_hashes, newly_scraped_rfps, existing_rfps,
                    failed, prevFailed, prevStore, prevCatalog >>

\* loop body: h in seen_hashes
SkipSeen ==
    /\ pc = "links"
    /\ \E link \in pending :
         /\ sha1(link) \in seen_hashes
         /\ pending' = pending \ {link}
    /\ pc' = AfterLink(pending', site)
    /\ lastFetch' = NoLink
    /\ lastOutcome' = "seen"
    /\ UNCHANGED << store, catalog, run, site, seen_hashes, newly_scraped_rfps,
                    existing_rfps, pages, failed,
                    prevPages, samePages, prevFailed, prevStore, prevCatalog >>

\* a failed download that leaves both loops
DownloadFailedAborts ==
    /\ pc = "links"
    /\ \E link \in pending :
         /\ sha1(link) \notin seen_hashes
         /\ lastFetch' = link
         /\ failed' = failed \cup {link}
    /\ pending' = {}
    /\ pc' = "merge"
    /\ lastOutcome' = "download_failed"
    /\ UNCHANGED << store, catalog, run, site, seen_hashes, newly_scraped_rfps,
                    existing_rfps, pages, prevPages, samePages, prevFailed,
                    prevStore, prevCatalog >>

\* loop body: session.get(link) raises
DownloadFailed ==
    /\ pc = "links"
    /\ \E link \in pending :
         /\ sha1(link) \notin seen_hashes
         /\ pending' = pending \ {link}
         /\ lastFetch' = link
         /\ failed' = failed \cup {link}
    /\ pc' = AfterLink(pending', site)
    /\ lastOutcome' = "download_failed"
    /\ UNCHANGED << store, catalog, run, site, seen_hashes, newly_scraped_rfps,
                    existing_rfps, pages, prevPages, samePages, prevFailed, prevStore, prevCatalog >>

\* loop body: the link is downloaded and its extension is none of the three
SkipUnknownType ==
    /\ pc = "links"
    /\ \E link \in pending :
         /\ sha1(link) \notin seen_hashes
         /\ FileExt(link) \notin Supported
         /\ pending' = pending \ {link}
         /\ lastFetch' = link
    /\ pc' = AfterLink(pending', site)
    /\ lastOutcome' = "unknown_type"
    /\ UNCHANGED << store, catalog, run, site, seen_hashes, newly_scraped_rfps,
                    existing_rfps, pages, failed,
                    prevPages, samePages, prevFailed, prevStore, prevCatalog >>

\* loop body: the link is downloaded, written to DATA_DIR, parsed and recorded
Download ==
    /\ pc = "links"
    /\ \E link \in pending, content \in Bytes :
         /\ sha1(link) \notin seen_hashes
         /\ FileExt(link) \in Supported
         /\ pending' = pending \ {link}
         /\ lastFetch' = link
         /\ store' = [ f \in DOMAIN store \cup {File(link)} |->
                         IF f = File(link) THEN content ELSE store[f] ]
         /\ newly_scraped_rfps' =
                Append(newly_scraped_rfps,
                       Record(Meta(FileExt(link), content), SITES[site].tag, link))
         /\ lastOutcome' = IF content = "corrupt" /\ FileExt(link) # <<".", "doc">>
                           THEN "parse_failed" ELSE "parsed"
    /\ pc' = AfterLink(pending', site)
    /\ UNCHANGED << catalog, run, site, seen_hashes, existing_rfps, pages, failed,
                    prevPages, samePages, prevFailed, prevStore, prevCatalog >>

\* the end of main(): load, merge, write
MergeAndWrite ==
    /\ pc = "merge"
    /\ ~MergeRaises(catalog)
    /\ existing_rfps' = LoadExisting(catalog)
    /\ catalog' = CatalogFile("list", Merge(existing_rfps', newly_scraped_rfps))
    /\ pc' = "done"
    /\ lastFetch' = NoLink
    /\ lastOutcome' = "written"
    /\ UNCHANGED << store, run, site, pending, seen_hashes, newly_scraped_rfps,
                    pages, failed, prevPages, samePages, prevFailed, prevStore, prevCatalog >>

\* the end of main(): the loaded JSON is no list of records and the merge raises
MergeCrashes ==
    /\ pc = "merge"
    /\ MergeRaises(catalog)
    /\ existing_rfps' = catalog.recs
    /\ pc' = "crashed"
    /\ lastFetch' = NoLink
    /\ lastOutcome' = "raised"
    /\ UNCHANGED << store, catalog, run, site, pending, seen_hashes, newly_scraped_rfps,
                    pages, failed, prevPages, samePages, prevFailed, prevStore, prevCatalog >>

Next ==
    \/ StartRun
    \/ LandingFailed
    \/ LandingFetched
    \/ SkipSeen
    \/ DownloadFailed
    \/ SkipUnknownType
    \/ Download
    \/ MergeAndWrite
    \/ MergeCrashes

Spec == Init /\ [][Next]_vars

TypeOK ==
    /\ pc \in {"idle", "sites", "links", "merge", "done", "crashed"}
    /\ run \in 0..MaxRuns
    /\ site \in 0..NumSites

\* ---- vocabulary of the properties --------------------------------------
Sources(recs) == { recs[i].source : i \in 1..Len(recs) }

Count(recs, S) == Cardinality({ i \in 1..Len(recs) : recs[i].source = S })

LastWith(recs, S) ==
    recs[CHOOSE i \in 1..Len(recs) :
            /\ recs[i].source = S
            /\ \A j \in 1..Len(recs) : recs[j].source = S => j <= i]

\* the one record of recs with source S is r
HoldsExactly(recs, S, r) ==
    /\ Count(recs, S) = 1
    /\ \E i \in 1..Len(recs) : recs[i] = r /\ recs[i].source = S

\* the links the landing pages of this run have yielded so far
Discovered == UNION { doc_links(SITES[i].url, pages[i]) : i \in 1..Len(pages) }

Links == { AllLinks[i] : i \in 1..Len(AllLinks) }

Stems(files) == { f.stem : f \in files }

RunOver == pc \in {"done", "crashed"}

\* ---- C1 ----------------------------------------------------------------
\* C1: when a run has written the catalog, every source URL that occurs both
\* in the catalog the run loaded and in the records it harvested occurs in
\* exactly one record of the written catalog, and that record is the last
\* harvested record with that source.
C1_MergeOverwrite ==
    pc = "done" =>
        \A S \in Sources(existing_rfps) \cap Sources(newly_scraped_rfps) :
            HoldsExactly(catalog.recs, S, LastWith(newly_scraped_rfps, S))

C1_Witness ==
    /\ pc = "done"
    /\ \E S \in Sources(existing_rfps) \cap Sources(newly_scraped_rfps) :
         /\ Count(newly_scraped_rfps, S) = 2
         /\ newly_scraped_rfps[1] # newly_scraped_rfps[2]
         /\ LastWith(existing_rfps, S) # LastWith(newly_scraped_rfps, S)

\* ---- C2 ----------------------------------------------------------------
\* C2: the catalog a run has written never holds two records with the same
\* source URL.
C2_KeyUnique ==
    pc = "done" => \A S \in Sources(catalog.recs) : Count(catalog.recs, S) = 1

C2_Witness ==
    /\ pc = "done"
    /\ \E S \in Links : Count(existing_rfps, S) = 2 /\ Count(newly_scraped_rfps, S) = 2

\* ---- C3 ----------------------------------------------------------------
\* C3 as stated: when the second of two consecutive runs is over and every
\* landing page answered in it what it answered in the first, DATA_DIR has
\* the files it had when the second run started and the catalog has as many
\* records as then.
C3_Original ==
    (run >= 2 /\ RunOver /\ samePages) =>
        /\ DOMAIN store = prevStore
        /\ Len(catalog.recs) = Len(prevCatalog.recs)

\* C3 amended: the same, for two runs in which moreover no document whose
\* download failed in the first run is downloaded by the second.
C3_Idempotent ==
    (run >= 2 /\ RunOver /\ samePages
        /\ prevFailed \cap Sources(newly_scraped_rfps) = {}) =>
        /\ DOMAIN store = prevStore
        /\ Len(catalog.recs) = Len(prevCatalog.recs)

C3_Witness ==
    /\ run >= 2 /\ pc = "done" /\ samePages
    /\ prevFailed \cap Discovered # {}
    /\ \E l \in Discovered : sha1(l) \in seen_hashes
    /\ Len(catalog.recs) > 0

\* ---- C4 ----------------------------------------------------------------
\* C4: when a run that found a list of records in the catalog file has
\* written the catalog, every source URL of the list it found is a source
\* URL of the written catalog.
C4_NothingRemoved ==
    (pc = "done" /\ prevCatalog.kind = "list") =>
        Sources(prevCatalog.recs) \subseteq Sources(catalog.recs)

C4_Witness ==
    /\ pc = "done" /\ run = 2
    /\ prevCatalog.kind = "list"
    /\ LinkOld \in Sources(prevCatalog.recs)
    /\ newly_scraped_rfps # <<>>

\* ---- C5 ----------------------------------------------------------------
\* C5: no run ends in an error before the catalog is written, whatever the
\* catalog file holds.
C5_AlwaysWrites == pc # "crashed"

\* ---- C6 ----------------------------------------------------------------
\* C6, one step: a landing page that fails yields no link, leaves DATA_DIR
\* and the harvested records alone and hands over to the next site (to the
\* merge after the last site); a document download that fails leaves DATA_DIR
\* and the harvested records alone and hands over to the next link of the
\* site (to the next site after the last link).
C6_Step ==
    /\ lastOutcome' = "landing_failed" =>
          /\ pending' = {}
          /\ store' = store /\ newly_scraped_rfps' = newly_scraped_rfps
          /\ pc' = IF site' < NumSites THEN "sites" ELSE "merge"
    /\ lastOutcome' = "download_failed" =>
          /\ store' = store /\ newly_scraped_rfps' = newly_scraped_rfps
          /\ File(lastFetch') \notin DOMAIN store' \ DOMAIN store
          /\ pending' = pending \ {lastFetch'}
          /\ pc' = IF pending' # {} THEN "links"
                   ELSE IF site < NumSites THEN "sites" ELSE "merge"

\* C6, the run: once the loops are left every site of SITES has been visited
\* and every link its page yielded was skipped as seen, failed to download,
\* was of an unknown type or has a harvested record.
C6_AllVisited ==
    pc \in {"merge", "done", "crashed"} =>
        /\ Len(pages) = NumSites
        /\ pending = {}
        /\ \A l \in Discovered :
              \/ sha1(l) \in seen_hashes
              \/ l \in failed
              \/ FileExt(l) \notin Supported
              \/ l \in Sources(newly_scraped_rfps)

\* C6: failures of a landing page or of a document download are isolated.
C6_FailureIsolation == [][C6_Step]_vars /\ []C6_AllVisited

C6_Witness ==
    /\ pc = "done"
    /\ pages[1] = FetchFailed
    /\ failed # {}
    /\ newly_scraped_rfps # <<>>

\* ---- C7 ----------------------------------------------------------------
\* C7: no GET is sent for a link whose extension is none of .pdf, .docx, .doc.
C7_NoFetchOfUnknownType ==
    lastFetch # NoLink => FileExt(lastFetch) \in Supported

\* ---- C8 ----------------------------------------------------------------
\* C8: a step in which the PDF or DOCX parser raises leaves the document in
\* DATA_DIR, appends exactly one record, with posted and deadline "n/a", a
\* non-empty snippet, the tag of the site and the URL of the link, and hands
\* over to the next link.
C8_Step ==
    lastOutcome' = "parse_failed" =>
        /\ File(lastFetch') \in DOMAIN store'
        /\ Len(newly_scraped_rfps') = Len(newly_scraped_rfps) + 1
        /\ SubSeq(newly_scraped_rfps', 1, Len(newly_scraped_rfps)) = newly_scraped_rfps
        /\ LET rec == newly_scraped_rfps'[Len(newly_scraped_rfps')]
           IN  /\ rec.posted = "n/a"
               /\ rec.deadline = "n/a"
               /\ rec.snippet # ""
               /\ rec.portal = SITES[site].tag
               /\ rec.source = lastFetch'
        /\ pending' = pending \ {lastFetch'}
        /\ pc' \in {"links", "sites", "merge"}

C8_SentinelRecord == [][C8_Step]_vars

C8_Witness ==
    /\ lastOutcome = "parse_failed"
    /\ FileExt(lastFetch) = <<".", "pdf">>
    /\ pc = "links"

\* ---- C9 ----------------------------------------------------------------
SeenAndCatalogued(l) ==
    /\ sha1(l) \in Stems(prevStore)
    /\ l \in Sources(LoadExisting(prevCatalog))

\* C9 as stated: when a run has written the catalog, every link it discovered
\* that was in DATA_DIR and in the catalog when the run started has one
\* record in the written catalog, and that record was harvested by this run.
C9_Original ==
    (pc = "done" /\ run >= 1) =>
        \A l \in Discovered :
            SeenAndCatalogued(l) =>
                /\ l \in Sources(newly_scraped_rfps)
                /\ HoldsExactly(catalog.recs, l, LastWith(newly_scraped_rfps, l))

\* C9 amended: for a link that was in DATA_DIR and in the catalog when the run
\* started, the run sends no GET and harvests no record, and the catalog it
\* writes holds exactly one record with that source, the last one the catalog
\* held for it before.
C9_NoRefresh ==
    run >= 1 =>
        \A l \in Links :
            SeenAndCatalogued(l) =>
                /\ lastFetch # l
                /\ l \notin Sources(newly_scraped_rfps)
                /\ pc = "done" =>
                      HoldsExactly(catalog.recs, l, LastWith(prevCatalog.recs, l))

C9_Witness ==
    /\ pc = "done" /\ run = 2
    /\ \E l \in Discovered :
         /\ SeenAndCatalogued(l)
         /\ FileExt(l) = <<".", "docx">>
    /\ newly_scraped_rfps # <<>>

\* ---- C10 ---------------------------------------------------------------
\* C10: once DATA_DIR holds the file of a URL, no step sends a GET for that
\* URL, and no step changes or removes a file of DATA_DIR.
C10_Step ==
    /\ \A l \in Links : sha1(l) \in Stems(DOMAIN store) => lastFetch' # l
    /\ \A f \in DOMAIN store : f \in DOMAIN store' /\ store'[f] = store[f]

C10_StoredOnce == [][C10_Step]_vars

====
